---- MODULE Spec2Model ----
(***************************************************************************)
(* Model of the RAG ingestion and retrieval pipeline of ACT-BACK-LFL       *)
(* (src/src/rag/service.py): the chunker (_chunk_texts), the content ids   *)
(* (_deterministic_id), the index/namespace manager                        *)
(* (ensure_index_and_namespace, create_namespace), the vector-store write  *)
(* (add_documents_to_index), the class and PDF ingestion runs              *)
(* (process_class_files, process_pdf_collection) and the retriever         *)
(* (similarity_query, retrieve_top_k_documents).                           *)
(*                                                                         *)
(* A text is a sequence of one-character strings.  The vector backend, the *)
(* blob store and the tokenizer are external: the backend is a map from    *)
(* namespace to a set of vectors keyed by id, and every outcome the code   *)
(* handles (a call that rejects the namespace keyword, a describe call that *)
(* yields no dimension, a download that fails) is a choice of the          *)
(* environment.                                                            *)
(***************************************************************************)
EXTENDS Integers, Sequences, FiniteSets, TLC

VARIABLES
    cin,        \* chunker: the arguments of the _chunk_texts call under study
    cphase,     \* chunker: "input" | "done" | "raised"
    cfrags,     \* chunker: char_chunks, the fragments of the character splitter
    cwins,      \* chunker: per fragment, the token windows that were emitted
    cout        \* chunker: the returned list of chunk texts

chunkVars == <<cin, cphase, cfrags, cwins, cout>>

----------------------------------------------------------------------------
(* Bounds of the chunker's input space.                                    *)

MaxTextLen == 6
MaxPairLen == 2
MaxK == 3
MaxOverlap == 2

----------------------------------------------------------------------------
(* Text helpers: Python's str.strip, str.split, str.join.                  *)

Min(a, b) == IF a < b THEN a ELSE b
Max(a, b) == IF a > b THEN a ELSE b

IsSpace(c) == c \in {" ", "\n"}

RECURSIVE StripLeft(_)
StripLeft(s) ==
    IF s = <<>> THEN <<>>
    ELSE IF IsSpace(Head(s)) THEN StripLeft(Tail(s)) ELSE s

RECURSIVE StripRight(_)
StripRight(s) ==
    IF s = <<>> THEN <<>>
    ELSE IF IsSpace(s[Len(s)]) THEN StripRight(SubSeq(s, 1, Len(s) - 1)) ELSE s

Strip(s) == StripRight(StripLeft(s))

\* str.split(): the maximal runs of non-whitespace characters, in order.
RECURSIVE SplitAcc(_, _, _)
SplitAcc(s, cur, acc) ==
    IF s = <<>> THEN (IF cur = <<>> THEN acc ELSE Append(acc, cur))
    ELSE IF IsSpace(Head(s))
         THEN SplitAcc(Tail(s), <<>>, IF cur = <<>> THEN acc ELSE Append(acc, cur))
         ELSE SplitAcc(Tail(s), Append(cur, Head(s)), acc)

Split(s) == SplitAcc(s, <<>>, <<>>)

\* sep.join(parts)
RECURSIVE Join(_, _)
Join(parts, sep) ==
    IF parts = <<>> THEN <<>>
    ELSE IF Len(parts) = 1 THEN parts[1]
    ELSE parts[1] \o sep \o Join(Tail(parts), sep)

RECURSIVE Concat(_)
Concat(parts) == IF parts = <<>> THEN <<>> ELSE Head(parts) \o Concat(Tail(parts))

RECURSIVE Flatten(_)
Flatten(seqs) == IF seqs = <<>> THEN <<>> ELSE Head(seqs) \o Flatten(Tail(seqs))

SumLen(parts) == Len(Concat(parts))

----------------------------------------------------------------------------
(* Stage 1 of _chunk_texts: RecursiveCharacterTextSplitter(separators=     *)
(* ["\n\n", "\n", ". ", " ", ""], chunk_size, chunk_overlap).split_text,   *)
(* the splitter's algorithm with its defaults (keep_separator, so pieces   *)
(* are merged with the empty separator; strip_whitespace; len as length).  *)

Separators == << <<"\n", "\n">>, <<"\n">>, <<".", " ">>, <<" ">>, <<>> >>

MatchAt(text, sep, i) ==
    /\ i + Len(sep) - 1 <= Len(text)
    /\ SubSeq(text, i, i + Len(sep) - 1) = sep

Contains(text, sep) == \E i \in 1..Len(text) : MatchAt(text, sep, i)

FirstIdx(text, sep) ==
    IF Contains(text, sep)
    THEN CHOOSE i \in 1..Len(text) :
            /\ MatchAt(text, sep, i)
            /\ \A j \in 1..(i - 1) : ~MatchAt(text, sep, j)
    ELSE 0

\* re.split("(sep)", text) with the separator glued to the front of the piece
\* that follows it; empty pieces dropped.  The empty separator gives list(text).
RECURSIVE SplitKeepRest(_, _)
SplitKeepRest(text, sep) ==
    LET i == FirstIdx(text, sep) IN
    IF i = 0 THEN <<sep \o text>>
    ELSE <<sep \o SubSeq(text, 1, i - 1)>>
         \o SplitKeepRest(SubSeq(text, i + Len(sep), Len(text)), sep)

SplitKeep(text, sep) ==
    LET i == FirstIdx(text, sep)
        raw == IF sep = <<>> THEN [j \in 1..Len(text) |-> <<text[j]>>]
               ELSE IF i = 0 THEN <<text>>
               ELSE <<SubSeq(text, 1, i - 1)>>
                    \o SplitKeepRest(SubSeq(text, i + Len(sep), Len(text)), sep)
    IN SelectSeq(raw, LAMBDA p : p # <<>>)

\* _join_docs: the pieces joined and stripped; nothing when that is empty.
JoinDocs(cur) == LET t == Strip(Concat(cur)) IN IF t = <<>> THEN <<>> ELSE <<t>>

\* the while loop of _merge_splits: drop pieces from the front of the current
\* document until the kept tail is within the overlap and the next piece fits.
RECURSIVE PopFront(_, _, _, _)
PopFront(cur, len, cs, co) ==
    LET total == SumLen(cur) IN
    IF total > co \/ (total + len > cs /\ total > 0)
    THEN PopFront(Tail(cur), len, cs, co)
    ELSE cur

RECURSIVE MergeFrom(_, _, _, _, _)
MergeFrom(splits, cur, docs, cs, co) ==
    IF splits = <<>> THEN docs \o JoinDocs(cur)
    ELSE LET d == Head(splits)
             over == SumLen(cur) + Len(d) > cs
             docs2 == IF over /\ cur # <<>> THEN docs \o JoinDocs(cur) ELSE docs
             cur2 == IF over /\ cur # <<>> THEN PopFront(cur, Len(d), cs, co) ELSE cur
         IN MergeFrom(Tail(splits), Append(cur2, d), docs2, cs, co)

MergeSplits(splits, cs, co) == MergeFrom(splits, <<>>, <<>>, cs, co)

\* the separator _split_text settles on: the first of `seps` found in the text
\* (the empty one always is), and the separators left for the recursion.
SepIndex(text, seps) ==
    IF \E i \in 1..Len(seps) : seps[i] = <<>> \/ Contains(text, seps[i])
    THEN CHOOSE i \in 1..Len(seps) :
            /\ seps[i] = <<>> \/ Contains(text, seps[i])
            /\ \A j \in 1..(i - 1) : ~(seps[j] = <<>> \/ Contains(text, seps[j]))
    ELSE Len(seps)

RECURSIVE SplitText(_, _, _, _)
RECURSIVE SplitPieces(_, _, _, _, _, _)
SplitPieces(pieces, good, final, rest, cs, co) ==
    IF pieces = <<>>
    THEN final \o (IF good = <<>> THEN <<>> ELSE MergeSplits(good, cs, co))
    ELSE LET s == Head(pieces) IN
         IF Len(s) < cs
         THEN SplitPieces(Tail(pieces), Append(good, s), final, rest, cs, co)
         ELSE LET flushed == final \o (IF good = <<>> THEN <<>>
                                        ELSE MergeSplits(good, cs, co))
                  deeper == IF rest = <<>> THEN <<s>> ELSE SplitText(s, rest, cs, co)
              IN SplitPieces(Tail(pieces), <<>>, flushed \o deeper, rest, cs, co)

SplitText(text, seps, cs, co) ==
    LET i == SepIndex(text, seps)
        sep == seps[i]
        rest == IF sep = <<>> THEN <<>> ELSE SubSeq(seps, i + 1, Len(seps))
    IN SplitPieces(SplitKeep(text, sep), <<>>, <<>>, rest, cs, co)

\* joined = "\n\n".join(texts); char_chunks = splitter.split_text(joined)
CharChunks(texts, cs, co) == SplitText(Join(texts, <<"\n", "\n">>), Separators, cs, co)

----------------------------------------------------------------------------
(* Stage 2 of _chunk_texts: token re-chunking of each fragment.            *)

\* The tokenizer behind enc.encode / enc.decode is external.  It is a small
\* merge tokenizer here: two adjacent "a" merge into one token, every other
\* character is a token of its own; decode concatenates the tokens' characters.
RECURSIVE Encode(_)
Encode(s) ==
    IF s = <<>> THEN <<>>
    ELSE IF Len(s) >= 2 /\ s[1] = "a" /\ s[2] = "a"
         THEN <<SubSeq(s, 1, 2)>> \o Encode(SubSeq(s, 3, Len(s)))
         ELSE <<SubSeq(s, 1, 1)>> \o Encode(Tail(s))

Decode(toks) == Concat(toks)

\* A faulty step: one token more than the window leaves room for.
StepPastWindow(k, co) == Max(k - co, 1) + 1

\* step = max(tokens_per_chunk - chunk_overlap, 1)
Step(k, co) == Max(k - co, 1)

\* A faulty windowing, toks[i : i + tokens_per_chunk + 1]: each slice one
\* token too long.
TokenWindowsWide(n, k, co) ==
    LET step == Step(k, co)
        count == (n + step - 1) \div step
    IN [j \in 1..count |-> [lo |-> (j - 1) * step + 1,
                            hi |-> Min((j - 1) * step + k + 1, n)]]

\* for i in range(0, len(toks), step): toks[i : i + tokens_per_chunk]
\* as the 1-based positions lo..hi of each window.
TokenWindows(n, k, co) ==
    LET step == Step(k, co)
        count == (n + step - 1) \div step
    IN [j \in 1..count |-> [lo |-> (j - 1) * step + 1,
                            hi |-> Min((j - 1) * step + k, n)]]

Window(toks, w) == SubSeq(toks, w.lo, w.hi)

NoChunks == [n |-> 0, wins |-> <<>>, chunks |-> <<>>]

\* tiktoken imported and the encoding loaded (service.py 356-366)
RechunkEncoded(c, k, co) ==
    LET toks == Encode(c)
        wins == TokenWindows(Len(toks), k, co)
    IN IF toks = <<>> THEN NoChunks
       ELSE [n |-> Len(toks), wins |-> wins,
             chunks |-> [j \in 1..Len(wins) |-> Decode(Window(toks, wins[j]))]]

\* tiktoken imported but no encoding could be loaded (service.py 348-354)
RechunkNoEncoding(c, k, co) ==
    LET toks == Split(c)
        wins == TokenWindows(Len(toks), k, co)
    IN [n |-> Len(toks), wins |-> wins,
        chunks |-> [j \in 1..Len(wins) |-> Join(Window(toks, wins[j]), <<" ">>)]]

\* tiktoken not importable: _simple_token_split
SimpleTokenSplit(text, k, co) ==
    LET tokens == Split(text)
        n == Len(tokens)
        wins == TokenWindows(n, k, co)
    IN IF tokens = <<>> THEN NoChunks
       ELSE IF n <= k
       THEN [n |-> n, wins |-> <<[lo |-> 1, hi |-> n]>>, chunks |-> <<text>>]
       ELSE [n |-> n, wins |-> wins,
             chunks |-> [j \in 1..Len(wins) |-> Join(Window(tokens, wins[j]), <<" ">>)]]

Paths == {"tiktoken", "noenc", "simple"}

\* what the loop over char_chunks does with one fragment on each path
Rechunk(path, c, k, co) ==
    IF path = "simple" THEN SimpleTokenSplit(c, k, co)
    ELSE IF Strip(c) = <<>> THEN NoChunks
    ELSE IF path = "noenc" THEN RechunkNoEncoding(c, k, co)
    ELSE RechunkEncoded(c, k, co)

\* the number of tokens of a text, counted by the tokenizer of the path
TokenCount(path, text) ==
    IF path = "tiktoken" THEN Len(Encode(text)) ELSE Len(Split(text))

\* A faulty order: the splitter is constructed before the test for no texts.
ChunkRaisesEager(texts, cs, co) == co > cs

\* the splitter's constructor rejects chunk_overlap > chunk_size (ValueError)
ChunkRaises(texts, cs, co) == texts # <<>> /\ co > cs

ChunkFragments(texts, cs, co) == IF texts = <<>> THEN <<>> ELSE CharChunks(texts, cs, co)

ChunkWindows(texts, cs, co, k, path) ==
    LET frags == ChunkFragments(texts, cs, co)
    IN [f \in 1..Len(frags) |-> Rechunk(path, frags[f], k, co)]

\* _chunk_texts(texts, chunk_size, chunk_overlap, tokens_per_chunk)
ChunkTexts(texts, cs, co, k, path) ==
    LET per == ChunkWindows(texts, cs, co, k, path)
    IN Flatten([f \in 1..Len(per) |-> per[f].chunks])

----------------------------------------------------------------------------
(* The chunker on its own: every input of a bounded space, one call.       *)

Alphabet == {"a", " "}

Strs(lo, hi) == UNION {[1..m -> Alphabet] : m \in lo..hi}

TextInputs ==
    {<<>>} \cup {<<s>> : s \in Strs(1, MaxTextLen)}
           \cup {<<s, t>> : s \in Strs(1, MaxPairLen), t \in Strs(1, MaxPairLen)}

SmallChunkSize == 3
DefaultChunkSize == 1000
ChunkSizes == {1, SmallChunkSize, DefaultChunkSize}

----------------------------------------------------------------------------
(* The pipeline: ingestion runs, the vector backend and retrieval.         *)

VARIABLES
    cfg,        \* the deployment: helpers importable, backend capabilities, chunking
    index,      \* the vector index: its configured dimension, NoDimension when absent
    store,      \* the vectors of the index, each in a namespace and keyed by id
    runs,       \* the ingestion runs: position, arguments, locals, result
    lastQ       \* the retrieve_top_k_documents call that has just returned, if any

pipeVars == <<cfg, index, store, runs, lastQ>>

VARIABLES
    mraw,       \* result shaping: the raw backend match under study
    mphase,     \* result shaping: "input" | "done"
    mout        \* result shaping: what retrieve_top_k_documents returned for it

matchVars == <<mraw, mphase, mout>>

VARIABLES
    tmpdirs,    \* download scope: the calls whose temporary directory exists
    scope       \* download scope: per call, where it is in its downloads

tmpVars == <<tmpdirs, scope>>

VARIABLE
    route       \* class route: per request, the response given and the task made

VARIABLES
    nin,        \* namespace normalisation: the parts under study
    nphase,     \* namespace normalisation: "input" | "done"
    nout        \* namespace normalisation: what _normalize_namespace returned

normVars == <<nin, nphase, nout>>

VARIABLES
    boot,       \* the process: API key set, started, client made, what was imported
    calls       \* the calls of the RAG consumers served since the start, in order

appVars == <<boot, calls>>

VARIABLES
    pin,        \* namespace of procesar_clase: the ingestion result and class under study
    pphase,     \* namespace of procesar_clase: "input" | "done"
    pns         \* namespace of procesar_clase: the namespace it retrieves from

nsVars == <<pin, pphase, pns>>

vars == <<cin, cphase, cfrags, cwins, cout, cfg, index, store, runs, lastQ,
          mraw, mphase, mout, tmpdirs, scope, route, nin, nphase, nout,
          boot, calls, pin, pphase, pns>>

\* DEFAULT_INDEX = os.getenv("RAG_INDEX", "learningforlive")
DEFAULT_INDEX == <<"l", "e", "a", "r", "n", "i", "n", "g", "f", "o", "r",
                   "l", "i", "v", "e">>
DEFAULT_DIM == 1536
DefaultTokensPerChunk == 256
DefaultChunkOverlap == 0
DefaultTopK == 5

\* no index, and the None of a dimension that could not be read
NoDimension == 0
Dims == {768, DEFAULT_DIM}
Runs == {"r1", "r2"}
ClassIds == {<<"1">>, <<"2">>}

\* str.lower and the accent table of _normalize_namespace, on the characters in use
Lower(c) ==
    CASE c = "A" -> "a" [] c = "C" -> "c" [] c = "D" -> "d" [] c = "E" -> "e"
      [] c = "L" -> "l" [] c = "S" -> "s" [] c = "T" -> "t" [] OTHER -> c

Unaccent(c) ==
    CASE c = "í" -> "i" [] c = "á" -> "a" [] c = "é" -> "e" [] c = "ó" -> "o"
      [] c = "ú" -> "u" [] OTHER -> c

IsAlnum(c) ==
    c \in {"a", "b", "c", "d", "e", "f", "i", "l", "o", "s", "t", "u",
           "A", "C", "D", "E", "L", "S", "T", "0", "1", "2", "3",
           "í", "á", "é", "ó", "ú"}

SpaceToUnderscore(c) == IF c = " " THEN "_" ELSE c

\* A faulty table: no accent is replaced.
UnaccentStrNone(s) == s

\* the string methods, character by character
LowerStr(s) == [i \in 1..Len(s) |-> Lower(s[i])]
UnderscoreStr(s) == [i \in 1..Len(s) |-> SpaceToUnderscore(s[i])]
UnaccentStr(s) == [i \in 1..Len(s) |-> Unaccent(s[i])]

\* A faulty normalisation: the underscore is not among the allowed characters.
NormalizeNamespaceAlnum(parts) ==
    LET kept == SelectSeq(parts, LAMBDA p : p # <<>>)
        each == [i \in 1..Len(kept) |-> UnderscoreStr(Strip(LowerStr(kept[i])))]
        joined == UnaccentStr(Join(each, <<"_">>))
        ns == SelectSeq(joined, LAMBDA c : IsAlnum(c) \/ c = "-")
    IN IF ns = <<>> THEN <<"d", "e", "f", "a", "u", "l", "t">> ELSE ns

\* _normalize_namespace(*parts)
NormalizeNamespace(parts) ==
    LET kept == SelectSeq(parts, LAMBDA p : p # <<>>)
        each == [i \in 1..Len(kept) |->
                    UnderscoreStr(Strip(LowerStr(kept[i])))]
        joined == UnaccentStr(Join(each, <<"_">>))
        ns == SelectSeq(joined, LAMBDA c : IsAlnum(c) \/ c \in {"_", "-"})
    IN IF ns = <<>> THEN <<"d", "e", "f", "a", "u", "l", "t">> ELSE ns

\* collection_name = f"clase_{id_clase}"; namespace = _normalize_namespace(it)
ClassNamespace(id) == NormalizeNamespace(<< <<"c", "l", "a", "s", "e", "_">> \o id >>)

\* collection_name = f"data_{docente.lower().replace(' ', '_')}_{id_clase}"
Docente == <<"D">>
PdfCollection(id) ==
    <<"d", "a", "t", "a", "_">> \o UnderscoreStr(LowerStr(Docente))
                               \o <<"_">> \o id
PdfNamespace(id) == NormalizeNamespace(<<PdfCollection(id)>>)

RunNamespace(kind, id) == IF kind = "class" THEN ClassNamespace(id) ELSE PdfNamespace(id)

\* the namespace a call without the namespace keyword lands in
DefaultNamespace == <<>>

\* ids: sha1(text) is one id per text; uuid4 is fresh for every draw
NoText == <<>>
SeqId(tag, text, run, n) == [tag |-> tag, text |-> text, run |-> run, n |-> n]
UuidId(run, n) == SeqId("uuid", NoText, run, n)
SeedId(run) == SeqId("__ns_init__", NoText, run, 0)

\* _deterministic_id(text) = sha1(text.encode("utf-8")).hexdigest()
DeterministicId(text) == SeqId("sha1", text, "", 0)

\* A faulty id: the hash also covers the chunk's position in the batch.
ChunkIdsByPosition(chunks, dedupe, run) ==
    [i \in 1..Len(chunks) |->
        IF dedupe THEN SeqId("sha1", chunks[i], "", i) ELSE UuidId(run, i)]

\* ids = [_deterministic_id(ch) ...] if dedupe else [str(uuid4()) ...]
ChunkIds(chunks, dedupe, run) ==
    [i \in 1..Len(chunks) |-> IF dedupe THEN DeterministicId(chunks[i]) ELSE UuidId(run, i)]

\* the documents under uploaded/class/{id}/ and the page texts their loader yields
ClassDocs(id) ==
    IF id = <<"1">>
    THEN << [name |-> "A.pdf", pages |-> << <<"a", " ", "a">> >>],
            [name |-> "B.pdf", pages |-> << <<" ">>, <<"a">> >>] >>
    ELSE << [name |-> "C.pdf", pages |-> << <<"a", "\n">> >>] >>

\* extract_pdf_texts: the stripped text of every page that has text
ExtractPdfTexts(doc) ==
    LET stripped == [i \in 1..Len(doc.pages) |-> Strip(doc.pages[i])]
    IN SelectSeq(stripped, LAMBDA t : t # <<>>)

\* the loop over pdf_keys: all_texts and sources after the first `upto` documents
RECURSIVE Accumulate(_, _)
Accumulate(docs, upto) ==
    IF upto = 0 THEN [texts |-> <<>>, sources |-> <<>>]
    ELSE LET prev == Accumulate(docs, upto - 1)
             extracted == ExtractPdfTexts(docs[upto])
         IN [texts |-> prev.texts \o extracted,
             sources |-> prev.sources \o [i \in 1..Len(extracted) |-> docs[upto].name]]

\* How the listing and the downloads of a process_class_files call went: blob
\* storage disabled, the listing raised, or `listed` documents were found (none
\* when nothing is uploaded yet) and the download or the extraction of document
\* `failedDoc` raised (0: none did).
NoOutcome == [storage |-> "", listed |-> 0, failedDoc |-> 0]

ClassOutcomes(id) ==
    {how \in [storage : {"disabled", "list_failed", "listed"},
              listed : {0, Len(ClassDocs(id))}, failedDoc : 0..Len(ClassDocs(id))] :
        /\ how.failedDoc <= how.listed
        /\ how.storage # "listed" => how.listed = 0}

\* the documents done when the loop over pdf_keys ends: all that were listed,
\* or those before the one that raised (the except clause is around the loop)
Processed(how) ==
    IF how.storage # "listed" THEN 0
    ELSE IF how.failedDoc = 0 THEN how.listed ELSE how.failedDoc - 1

\* chunk[:2000], the copy of the text kept in the metadata
MetaTextLimit == 2000
Truncate(text) == SubSeq(text, 1, Min(Len(text), MetaTextLimit))

\* metadatas of process_class_files: source is sources[i] when there is one
ClassSource(sources, i) == IF i <= Len(sources) THEN sources[i] ELSE ""

ClassMetadatas(chunks, sources, id) ==
    [i \in 1..Len(chunks) |->
        [source |-> ClassSource(sources, i), chunk_index |-> i - 1, class_id |-> id,
         collection |-> <<>>, text |-> Truncate(chunks[i])]]

\* metadatas of process_pdf_collection: source is the one PDF, and the
\* collection stands where process_class_files puts the class id
PdfMetadatas(chunks, name, id) ==
    [i \in 1..Len(chunks) |->
        [source |-> name, chunk_index |-> i - 1, class_id |-> <<>>,
         collection |-> PdfCollection(id), text |-> Truncate(chunks[i])]]

\* a vector of the index
Vector(ns, id, text, meta) ==
    [ns |-> ns, id |-> id, text |-> text, source |-> meta.source,
     chunk_index |-> meta.chunk_index, class_id |-> meta.class_id,
     collection |-> meta.collection, mtext |-> meta.text]

\* the seed's metadata is {"_ns_init": True}: none of the chunk fields
SeedMeta ==
    [source |-> "", chunk_index |-> -1, class_id |-> <<>>, collection |-> <<>>,
     text |-> NoText]

\* upsert: insert or replace by id within the namespace
Upsert(st, vecs) ==
    {v \in st : ~\E w \in vecs : w.ns = v.ns /\ w.id = v.id} \cup vecs

\* the vectors add_documents would write; a later item of the batch wins on an id
BatchVectors(ns, chunks, metas, ids) ==
    {Vector(ns, ids[i], chunks[i], metas[i]) : i \in
        {j \in 1..Len(chunks) : ~\E m \in (j + 1)..Len(chunks) : ids[m] = ids[j]}}

InNamespace(st, ns) == {v \in st : v.ns = ns}

IdleRun ==
    [pc |-> "idle", kind |-> "class", cls |-> <<>>, dedupe |-> TRUE,
     texts |-> <<>>, sources |-> <<>>, chunks |-> <<>>, metas |-> <<>>, ids |-> <<>>,
     actual |-> NoDimension, upserts |-> 0, rerun |-> FALSE, before |-> {},
     how |-> NoOutcome,
     result |-> [ok |-> FALSE, reason |-> "", upserted |-> 0, namespace |-> <<>>]]

NoQuery == [asked |-> FALSE, namespace |-> <<>>, topk |-> 0, raised |-> FALSE]

\* the chunking a deployment runs with: the defaults of process_class_files,
\* and a small chunk size and token budget that make the documents split
ChunkSetups ==
    {[cs |-> DefaultChunkSize, co |-> DefaultChunkOverlap, k |-> DefaultTokensPerChunk,
      path |-> "tiktoken"],
     [cs |-> SmallChunkSize, co |-> DefaultChunkOverlap, k |-> 1, path |-> "noenc"],
     [cs |-> SmallChunkSize, co |-> DefaultChunkOverlap, k |-> 1, path |-> "simple"]}

Deployments(concurrent) ==
    [createIndex : BOOLEAN, nsKeyword : BOOLEAN, chunk : ChunkSetups,
     concurrent : {concurrent}]

\* the index a deployment starts with: any, when it has to exist already;
\* none yet, when the create_index helper is there to create it
InitialIndex(deployment) ==
    IF deployment.createIndex THEN {NoDimension} ELSE {NoDimension} \cup Dims

PipelineIdle ==
    /\ store = {}
    /\ runs = [r \in Runs |-> IdleRun]
    /\ lastQ = NoQuery

ChunkerOff ==
    /\ cin = [texts |-> <<>>, cs |-> DefaultChunkSize, co |-> DefaultChunkOverlap,
              k |-> DefaultTokensPerChunk, path |-> "simple"]
    /\ cphase = "off"
    /\ cfrags = <<>>
    /\ cwins = <<>>
    /\ cout = <<>>

\* a raw backend match: id, score, metadata, and the text fields a backend may
\* put on the match itself; NoText is a field that is absent or empty
RawMatch(id, score, metadata, text, document) ==
    [id |-> id, score |-> score, metadata |-> metadata, text |-> text,
     document |-> document]

NoMetadata == [text |-> NoText, content |-> NoText, page_content |-> NoText]

MatcherOff ==
    /\ mraw = RawMatch(SeqId("", NoText, "", 0), 0, NoMetadata, NoText, NoText)
    /\ mphase = "off"
    /\ mout = <<>>

\* a call that has not reached its downloads
NoScope == [pc |-> "idle", kind |-> "class", cls |-> <<>>, listed |-> 0, doc |-> 0,
            opened |-> FALSE, failed |-> FALSE]

\* no temporary directory outside the extraction step of a run: the step makes
\* and removes its directory within itself
NoDownloads ==
    /\ tmpdirs = {}
    /\ scope = [r \in Runs |-> NoScope]

\* the status of the response of POST /clases/{id}/process
Accepted == 202

NoRequest == [task |-> "none", cls |-> <<>>, status |-> 0, message |-> "",
              stage |-> "", namespace |-> <<>>, rows |-> 0]

NoRequests == route = [r \in Runs |-> NoRequest]

NormalizerOff ==
    /\ nin = [a |-> <<>>, b |-> <<>>]
    /\ nphase = "off"
    /\ nout = [a |-> <<>>, b |-> <<>>, ab |-> <<>>, again |-> <<>>,
               clsA |-> <<>>, clsB |-> <<>>]

\* no process under study
NoBoot == [key |-> TRUE, phase |-> "off", client |-> FALSE, ragRouter |-> FALSE,
           helper |-> FALSE]

AppOff ==
    /\ boot = NoBoot
    /\ calls = <<>>

NamerOff ==
    /\ pin = [cls |-> <<>>,
              result |-> [ok |-> FALSE, namespace |-> NoText, index |-> NoText,
                          name |-> NoText, namespace_name |-> NoText]]
    /\ pphase = "off"
    /\ pns = <<>>

\* requests served one after the other
Init ==
    /\ cfg \in Deployments(FALSE)
    /\ index \in InitialIndex(cfg)
    /\ PipelineIdle
    /\ ChunkerOff
    /\ MatcherOff
    /\ NoDownloads
    /\ NoRequests
    /\ NormalizerOff
    /\ AppOff
    /\ NamerOff

\* requests served concurrently
InitConc ==
    /\ cfg \in Deployments(TRUE)
    /\ index \in InitialIndex(cfg)
    /\ PipelineIdle
    /\ ChunkerOff
    /\ MatcherOff
    /\ NoDownloads
    /\ NoRequests
    /\ NormalizerOff
    /\ AppOff
    /\ NamerOff

----------------------------------------------------------------------------
(* The steps of an ingestion run.  A run of kind "class" is                *)
(* process_class_files (extract, chunk, ensure, seed, add); a run of kind  *)
(* "pdf" is process_pdf_collection (ensure, seed, extract, chunk, add).    *)

SetRun(r, rec) == runs' = [runs EXCEPT ![r] = rec]

\* A faulty result: the reason is dropped.
FailureUnnamed(reason) == [ok |-> FALSE, reason |-> "", upserted |-> 0, namespace |-> <<>>]

Failure(reason) == [ok |-> FALSE, reason |-> reason, upserted |-> 0, namespace |-> <<>>]

\* positions at which a run is not in progress
Quiet == {"idle", "returned", "raised", "failed", "ok"}

Ended == Quiet \ {"idle"}

\* the call repeats a finished, successful run: same operation, same class,
\* both with dedupe
Rerun(r, kind, id, dedupe) ==
    \E o \in Runs \ {r} :
        /\ runs[o].pc = "ok" /\ runs[o].kind = kind
        /\ runs[o].cls = id /\ runs[o].dedupe /\ dedupe

\* a call of process_class_files(id, dedupe=...) or process_pdf_collection(...)
Start(r, kind, id, dedupe) ==
    /\ runs[r].pc = "idle"
    /\ r = "r1" \/ runs["r1"].pc # "idle"
    /\ cfg.concurrent \/ \A o \in Runs \ {r} : runs[o].pc \in Quiet
    /\ kind = "pdf" => id = <<"1">> /\ dedupe
    /\ SetRun(r, [IdleRun EXCEPT
            !.pc = IF kind = "class" THEN "extract" ELSE "ensure",
            !.kind = kind, !.cls = id, !.dedupe = dedupe,
            !.rerun = Rerun(r, kind, id, dedupe),
            !.before = IF Rerun(r, kind, id, dedupe)
                       THEN InNamespace(store, RunNamespace(kind, id)) ELSE {}])
    /\ lastQ' = NoQuery
    /\ UNCHANGED <<cfg, index, store, chunkVars, matchVars, tmpVars, route, normVars, appVars, nsVars>>

\* what follows the extraction in both kinds of run: chunk, metadatas, ids
AfterExtraction(r, texts, sources, name, emptyReason, next) ==
    LET run == runs[r]
        chunks == ChunkTexts(texts, cfg.chunk.cs, cfg.chunk.co, cfg.chunk.k, cfg.chunk.path)
        metas == IF run.kind = "class" THEN ClassMetadatas(chunks, sources, run.cls)
                 ELSE PdfMetadatas(chunks, name, run.cls)
    IN IF texts = <<>>
       THEN [run EXCEPT !.pc = "returned", !.result = Failure(emptyReason)]
       ELSE IF chunks = <<>>
       THEN [run EXCEPT !.pc = "returned", !.texts = texts, !.sources = sources,
                        !.result = Failure("no_chunks")]
       ELSE [run EXCEPT !.pc = next, !.texts = texts, !.sources = sources,
                        !.chunks = chunks, !.metas = metas,
                        !.ids = ChunkIds(chunks, run.dedupe, r)]

\* process_class_files 548-596: the documents are downloaded and extracted
\* until the end of the list or until one raises, then chunked.
ExtractClass(r) ==
    /\ runs[r].pc = "extract" /\ runs[r].kind = "class"
    /\ \E how \in ClassOutcomes(runs[r].cls) :
         LET acc == Accumulate(ClassDocs(runs[r].cls), Processed(how))
             after == AfterExtraction(r, acc.texts, acc.sources, "",
                                      "no_texts_extracted", "ensure")
         IN SetRun(r, [after EXCEPT !.how = how])
    /\ lastQ' = NoQuery
    /\ UNCHANGED <<cfg, index, store, chunkVars, matchVars, tmpVars, route, normVars, appVars, nsVars>>

\* process_pdf_collection 486-529 for one of the class's PDFs: fetched and
\* read, not found (no text), or a download that raises.
ExtractPdf(r) ==
    /\ runs[r].pc = "extract" /\ runs[r].kind = "pdf"
    /\ \E d \in 1..Len(ClassDocs(runs[r].cls)), outcome \in {"read", "missing", "raised"} :
         LET doc == ClassDocs(runs[r].cls)[d]
             texts == IF outcome = "read" THEN ExtractPdfTexts(doc) ELSE <<>>
             sources == [i \in 1..Len(texts) |-> doc.name]
         IN IF outcome = "raised"
            THEN SetRun(r, [runs[r] EXCEPT !.pc = "failed"])
            ELSE SetRun(r, AfterExtraction(r, texts, sources, doc.name,
                                           "no_text_extracted", "add"))
    /\ lastQ' = NoQuery
    /\ UNCHANGED <<cfg, index, store, chunkVars, matchVars, tmpVars, route, normVars, appVars, nsVars>>

\* create_index(index_name, dimension) when the helper was importable: an
\* absent index is created with the requested dimension, or the call fails
\* and the failure is logged.
IndexAfterCreate(created) ==
    IF cfg.createIndex /\ index = NoDimension /\ created THEN DEFAULT_DIM ELSE index

\* _get_index_dimension(): the index's dimension, or None (best effort)
ActualDim(idx, known) == IF idx # NoDimension /\ known THEN idx ELSE NoDimension

\* A faulty check: only an index larger than the embeddings is refused.
DimensionMismatchLarger(actual, dimension) == actual # NoDimension /\ actual > dimension

\* the check of ensure_index_and_namespace 451-456
DimensionMismatch(actual, dimension) == actual # NoDimension /\ actual # dimension

\* the namespace a write lands in: the one asked for, or the default one when
\* the call rejects the namespace keyword (TypeError) and is repeated without
WriteNamespace(ns) == IF cfg.nsKeyword THEN ns ELSE DefaultNamespace
WriteCalls == IF cfg.nsKeyword THEN 1 ELSE 2

\* create_namespace 89-133: a seed vector under a fresh id, when the dimension
\* can be inferred and the client takes the upsert call (else it raises with
\* nothing written, which ensure_index_and_namespace logs and ignores)
SeedCalled(idx, inferred) == idx # NoDimension /\ inferred

\* A faulty handler: a seeding that raised ends the run.
AfterSeedingFatal(next, called) == IF called THEN next ELSE "raised"

\* ensure_index_and_namespace 463-467: create_namespace is called inside a
\* try whose except logs; the function returns and the run goes on either way
AfterSeeding(next, called) == next

SeedVector(r, ns) == Vector(WriteNamespace(ns), SeedId(r), NoText, SeedMeta)

\* ensure_index_and_namespace 417-467: create the index when the helper is
\* there, read the dimension and raise on a mismatch, then seed the namespace;
\* a failure of the seeding is logged and ignored.
EnsureIndexAndNamespace(r) ==
    /\ runs[r].pc = "ensure"
    /\ \E created \in BOOLEAN, known \in BOOLEAN, inferred \in BOOLEAN :
         LET run == runs[r]
             idx == IndexAfterCreate(created)
             actual == ActualDim(idx, known)
             ns == RunNamespace(run.kind, run.cls)
             called == SeedCalled(idx, inferred)
             next == IF run.kind = "class" THEN "add" ELSE "extract"
         IN /\ index' = idx
            /\ IF DimensionMismatch(actual, DEFAULT_DIM)
               THEN /\ SetRun(r, [run EXCEPT !.pc = "raised", !.actual = actual])
                    /\ store' = store
               ELSE /\ SetRun(r, [run EXCEPT !.pc = AfterSeeding(next, called),
                          !.actual = actual,
                          !.upserts = IF called THEN run.upserts + WriteCalls
                                      ELSE run.upserts])
                    /\ store' = IF called
                                THEN Upsert(store, {SeedVector(r, ns)}) ELSE store
    /\ lastQ' = NoQuery
    /\ UNCHANGED <<cfg, chunkVars, matchVars, tmpVars, route, normVars, appVars, nsVars>>

\* the backend takes vectors of the embedding model's size only
\* (text-embedding-3-small, the size DEFAULT_DIM is set to)
WriteAccepted(accepted) == index = DEFAULT_DIM /\ accepted

\* add_documents_to_index 153-192 and the return of the run
AddDocuments(r) ==
    /\ runs[r].pc = "add"
    /\ \E accepted \in BOOLEAN :
         LET run == runs[r]
             ns == RunNamespace(run.kind, run.cls)
             batch == BatchVectors(WriteNamespace(ns), run.chunks, run.metas, run.ids)
         IN IF WriteAccepted(accepted)
            THEN /\ store' = Upsert(store, batch)
                 /\ SetRun(r, [run EXCEPT !.pc = "ok",
                         !.upserts = run.upserts + WriteCalls,
                         !.result = [ok |-> TRUE, reason |-> "",
                                     upserted |-> Len(run.ids), namespace |-> ns]])
            ELSE /\ store' = store
                 /\ SetRun(r, [run EXCEPT !.pc = "failed",
                         !.upserts = run.upserts + WriteCalls])
    /\ lastQ' = NoQuery
    /\ UNCHANGED <<cfg, index, chunkVars, matchVars, tmpVars, route, normVars, appVars, nsVars>>

\* the namespace a query reads: the one asked for, or the default one when the
\* query call rejects the namespace keyword and is repeated without
QueryNamespace(ns) == IF cfg.nsKeyword THEN ns ELSE DefaultNamespace

\* the lists of matches a query may return: top_k of the namespace's vectors,
\* all of them when there are fewer (which ones is the backend's ranking)
TopMatches(cands, topk) ==
    {m \in SUBSET cands : Cardinality(m) = Min(topk, Cardinality(cands))}

\* similarity_query 252-279: raises when the index cannot be queried
QueryRaises == index = NoDimension

\* retrieve_top_k_documents(query, top_k, namespace) over similarity_query.
\* It reads the index only, and every content the index has at any moment it
\* also has with the runs ended (a run can end at once, changing nothing): the
\* call is taken when they have.
Retrieve(ns, topk) ==
    /\ \A r \in Runs : runs[r].pc \in Ended
    /\ lastQ' = [asked |-> TRUE, namespace |-> ns, topk |-> topk, raised |-> QueryRaises]
    /\ UNCHANGED <<cfg, index, store, runs, chunkVars, matchVars, tmpVars, route, normVars, appVars, nsVars>>

\* what the call that has just returned may have returned: one of these sets of
\* matches, each match a vector with its id, metadata and text
Retrieved ==
    IF ~lastQ.asked \/ lastQ.raised THEN {}
    ELSE TopMatches(InNamespace(store, QueryNamespace(lastQ.namespace)), lastQ.topk)

\* the matches in the order the backend returns them, best first; which order
\* that is for a query is the backend's
RECURSIVE Ordered(_)
Ordered(m) ==
    IF m = {} THEN <<>>
    ELSE LET best == CHOOSE v \in m : TRUE
         IN <<best>> \o Ordered(m \ {best})

\* the response of idx.query for the matches m: the vector's metadata as it
\* was written (the chunk's text under "text"; the seed has none), scores
\* descending
RawMatches(m) ==
    LET ord == Ordered(m)
    IN [i \in 1..Len(ord) |->
          RawMatch(ord[i].id, Len(ord) - i,
                   [NoMetadata EXCEPT !.text = ord[i].mtext], NoText, NoText)]

\* similarity_query 271-279: each match becomes {id, score, metadata}; the
\* other fields of the raw match are not copied, so they read as absent
NormalizeMatches(raw) ==
    [i \in 1..Len(raw) |->
        RawMatch(raw[i].id, raw[i].score, raw[i].metadata, NoText, NoText)]

\* a or b or c ...: the first value that is not empty, None (NoText) if none
RECURSIVE FirstText(_)
FirstText(values) ==
    IF values = <<>> THEN NoText
    ELSE IF Head(values) # NoText THEN Head(values) ELSE FirstText(Tail(values))

\* retrieve_top_k_documents 615-622: the text of one normalized match
ResolveText(m) ==
    LET fromMeta == FirstText(<<m.metadata.text, m.metadata.content,
                                m.metadata.page_content>>)
    IN IF fromMeta # NoText THEN fromMeta ELSE FirstText(<<m.text, m.document>>)

\* A faulty loop: matches without text are left out.
RetrieveResultsWithText(matches) ==
    LET kept == SelectSeq(matches, LAMBDA m : ResolveText(m) # NoText)
    IN [i \in 1..Len(kept) |->
          [id |-> kept[i].id, score |-> kept[i].score,
           metadata |-> kept[i].metadata, text |-> ResolveText(kept[i])]]

\* retrieve_top_k_documents 613-637: one result per match, in order
RetrieveResults(matches) ==
    [i \in 1..Len(matches) |->
        [id |-> matches[i].id, score |-> matches[i].score,
         metadata |-> matches[i].metadata, text |-> ResolveText(matches[i])]]

\* retrieve_top_k_documents over similarity_query, for a raw response
RetrieveTopK(raw) == RetrieveResults(NormalizeMatches(raw))

\* namespace = f"clase_{id_clase}" of the chat and of the per-student index
\* generation, id_clase an integer: not normalized
CallSiteNamespace(id) == <<"c", "l", "a", "s", "e", "_">> \o id

\* the dict a successful process_class_files returns (604), by the keys
\* procesar_clase reads
RagResult(result) ==
    [ok |-> result.ok, namespace |-> result.namespace, index |-> DEFAULT_INDEX,
     name |-> NoText, namespace_name |-> NoText]

\* the namespace procesar_clase retrieves from (188-198): the first of the
\* result's namespace, index, name and namespace_name that is not empty, or
\* clase_{id_clase} when there is none
ProcesarNamespace(result, id) ==
    LET named == FirstText(<<result.namespace, result.index, result.name,
                             result.namespace_name>>)
    IN IF named # NoText THEN named ELSE CallSiteNamespace(id)

RetrieveNamespaces == {CallSiteNamespace(id) : id \in ClassIds}

Next ==
    \/ \E r \in Runs, kind \in {"class", "pdf"}, id \in ClassIds, dedupe \in BOOLEAN :
         Start(r, kind, id, dedupe)
    \/ \E r \in Runs : ExtractClass(r)
    \/ \E r \in Runs : ExtractPdf(r)
    \/ \E r \in Runs : EnsureIndexAndNamespace(r)
    \/ \E r \in Runs : AddDocuments(r)
    \/ \E ns \in RetrieveNamespaces, topk \in {1, DefaultTopK} : Retrieve(ns, topk)

Spec == Init /\ [][Next]_vars

SpecConc == InitConc /\ [][Next]_vars

InitChunk ==
    /\ cin \in [texts : TextInputs, cs : ChunkSizes, co : 0..MaxOverlap,
                k : 1..MaxK, path : Paths]
    /\ cphase = "input"
    /\ cfrags = <<>>
    /\ cwins = <<>>
    /\ cout = <<>>
    /\ cfg = [createIndex |-> FALSE, nsKeyword |-> TRUE, concurrent |-> FALSE,
              chunk |-> [cs |-> DefaultChunkSize, co |-> DefaultChunkOverlap,
                         k |-> DefaultTokensPerChunk, path |-> "simple"]]
    /\ index = NoDimension
    /\ store = {}
    /\ runs = [r \in Runs |-> IdleRun]
    /\ lastQ = NoQuery
    /\ MatcherOff
    /\ NoDownloads
    /\ NoRequests
    /\ NormalizerOff
    /\ AppOff
    /\ NamerOff

CallChunkTexts ==
    /\ cphase = "input"
    /\ IF ChunkRaises(cin.texts, cin.cs, cin.co)
       THEN /\ cphase' = "raised"
            /\ UNCHANGED <<cfrags, cwins, cout>>
       ELSE /\ cphase' = "done"
            /\ cfrags' = ChunkFragments(cin.texts, cin.cs, cin.co)
            /\ cwins' = ChunkWindows(cin.texts, cin.cs, cin.co, cin.k, cin.path)
            /\ cout' = ChunkTexts(cin.texts, cin.cs, cin.co, cin.k, cin.path)
    /\ UNCHANGED <<cin, pipeVars, matchVars, tmpVars, route, normVars, appVars, nsVars>>

NextChunk == CallChunkTexts

SpecChunk == InitChunk /\ [][NextChunk]_vars

----------------------------------------------------------------------------
(* The shaping of one raw match on its own: every raw match of a bounded    *)
(* space, one call.                                                         *)

FieldTexts == {NoText, <<"a">>, <<"b">>}

RawInputs ==
    {RawMatch(SeqId("uuid", NoText, "r1", 1), 1,
              [text |-> t, content |-> c, page_content |-> p], top, doc) :
        t \in FieldTexts, c \in FieldTexts, p \in FieldTexts,
        top \in FieldTexts, doc \in FieldTexts}

InitMatch ==
    /\ mraw \in RawInputs
    /\ mphase = "input"
    /\ mout = <<>>
    /\ cfg = [createIndex |-> FALSE, nsKeyword |-> TRUE, concurrent |-> FALSE,
              chunk |-> [cs |-> DefaultChunkSize, co |-> DefaultChunkOverlap,
                         k |-> DefaultTokensPerChunk, path |-> "simple"]]
    /\ index = DEFAULT_DIM
    /\ PipelineIdle
    /\ ChunkerOff
    /\ NoDownloads
    /\ NoRequests
    /\ NormalizerOff
    /\ AppOff
    /\ NamerOff

CallRetrieveTopK ==
    /\ mphase = "input"
    /\ mphase' = "done"
    /\ mout' = RetrieveTopK(<<mraw>>)
    /\ UNCHANGED <<mraw, chunkVars, pipeVars, tmpVars, route, normVars, appVars, nsVars>>

NextMatch == CallRetrieveTopK

SpecMatch == InitMatch /\ [][NextMatch]_vars

----------------------------------------------------------------------------
(* The download scope of process_class_files (565-582) and of               *)
(* process_pdf_collection (486-516) step by step: the temporary directory   *)
(* is made, the documents are downloaded and extracted one by one, and the  *)
(* finally clause removes the directory.  Calls run concurrently.           *)

SetScope(r, rec) == scope' = [scope EXCEPT ![r] = rec]

\* A faulty clean-up: the directory is removed only when nothing raised.
CleanedUpOnSuccess(dirs, r, failed) == IF failed THEN dirs ELSE dirs \ {r}

\* shutil.rmtree(tmpdir, ignore_errors=True) in the finally clause
CleanedUp(dirs, r, failed) == dirs \ {r}

\* the call reaches its downloads.  process_class_files: blob storage is
\* disabled, the listing raises or lists nothing (no directory is made), or
\* it lists the class's documents and tempfile.mkdtemp makes the directory.
\* process_pdf_collection: the path is local (no directory), or it is a blob
\* key and mkdtemp makes the directory.
OpenScope(r, kind, id) ==
    /\ scope[r].pc = "idle"
    /\ r = "r1" \/ scope["r1"].pc # "idle"
    /\ \E remote \in BOOLEAN :
         LET listed == IF ~remote THEN 0
                       ELSE IF kind = "class" THEN Len(ClassDocs(id)) ELSE 1
         IN /\ SetScope(r, [NoScope EXCEPT
                    !.pc = IF remote THEN "loop"
                           ELSE IF kind = "class" THEN "done" ELSE "local",
                    !.kind = kind, !.cls = id, !.listed = listed,
                    !.opened = remote])
            /\ tmpdirs' = IF remote THEN tmpdirs \cup {r} ELSE tmpdirs
    /\ UNCHANGED <<chunkVars, pipeVars, matchVars, route, normVars, appVars, nsVars>>

\* client.download_file and extract_pdf_texts for the next document: both
\* return, or one raises and control passes to the finally clause; after the
\* last document control passes there too
DownloadNext(r) ==
    /\ scope[r].pc = "loop"
    /\ IF scope[r].doc = scope[r].listed
       THEN SetScope(r, [scope[r] EXCEPT !.pc = "finally"])
       ELSE \E raised \in BOOLEAN :
              SetScope(r, IF raised
                          THEN [scope[r] EXCEPT !.pc = "finally", !.failed = TRUE]
                          ELSE [scope[r] EXCEPT !.doc = @ + 1])
    /\ UNCHANGED <<tmpdirs, chunkVars, pipeVars, matchVars, route, normVars, appVars, nsVars>>

\* extract_pdf_texts(pdf_path) on a local path (process_pdf_collection 510):
\* no directory was made
ExtractLocal(r) ==
    /\ scope[r].pc = "local"
    /\ \E raised \in BOOLEAN :
         SetScope(r, [scope[r] EXCEPT !.pc = IF raised THEN "raised" ELSE "done",
                                      !.failed = raised])
    /\ UNCHANGED <<tmpdirs, chunkVars, pipeVars, matchVars, route, normVars, appVars, nsVars>>

\* the finally clause, then the way out: process_pdf_collection lets the
\* exception through; process_class_files logs it (581-582) and goes on
LeaveScope(r) ==
    /\ scope[r].pc = "finally"
    /\ tmpdirs' = CleanedUp(tmpdirs, r, scope[r].failed)
    /\ SetScope(r, [scope[r] EXCEPT
            !.pc = IF scope[r].failed /\ scope[r].kind = "pdf" THEN "raised" ELSE "done"])
    /\ UNCHANGED <<chunkVars, pipeVars, matchVars, route, normVars, appVars, nsVars>>

InitTmp ==
    /\ cfg = [createIndex |-> FALSE, nsKeyword |-> TRUE, concurrent |-> TRUE,
              chunk |-> [cs |-> DefaultChunkSize, co |-> DefaultChunkOverlap,
                         k |-> DefaultTokensPerChunk, path |-> "simple"]]
    /\ index = DEFAULT_DIM
    /\ PipelineIdle
    /\ ChunkerOff
    /\ MatcherOff
    /\ NoDownloads
    /\ NoRequests
    /\ NormalizerOff
    /\ AppOff
    /\ NamerOff

NextTmp ==
    \/ \E r \in Runs, kind \in {"class", "pdf"}, id \in ClassIds : OpenScope(r, kind, id)
    \/ \E r \in Runs : DownloadNext(r)
    \/ \E r \in Runs : ExtractLocal(r)
    \/ \E r \in Runs : LeaveScope(r)

SpecTmp == InitTmp /\ [][NextTmp]_vars

----------------------------------------------------------------------------
(* The class route: POST /clases/{id}/process makes a background task of    *)
(* procesar_clase and answers; the task runs process_class_files.           *)

\* A faulty route: it awaits procesar_clase, so there is no response while the
\* task runs.
AwaitedResponse(id, how) == [NoRequest EXCEPT !.task = how, !.cls = id]

\* procesar_clase_route 136-153: the task is made with loop.create_task, or on
\* a thread when there is no running loop, and the 202 response is returned
AcceptedResponse(id, how) ==
    [NoRequest EXCEPT !.task = how, !.cls = id, !.status = Accepted,
                      !.message = "Processing started"]

ProcesarClaseRoute(r, id) ==
    /\ route[r].task = "none"
    /\ r = "r1" \/ route["r1"].task # "none"
    /\ \E how \in {"task", "thread"} :
         route' = [route EXCEPT ![r] = AcceptedResponse(id, how)]
    /\ UNCHANGED <<chunkVars, pipeVars, matchVars, tmpVars, normVars, appVars, nsVars>>

\* procesar_clase 151-160: the class or its files are not found and the task
\* ends before process_class_files is called
ProcesarClaseAborts(r) ==
    /\ route[r].task \in {"task", "thread"}
    /\ runs[r].pc = "idle"
    /\ route' = [route EXCEPT ![r].task = "aborted"]
    /\ UNCHANGED <<chunkVars, pipeVars, matchVars, tmpVars, normVars, appVars, nsVars>>

\* procesar_clase 170: process_class_files(str(id_clase)), dedupe by default
ProcesarClaseBegins(r) ==
    /\ route[r].task \in {"task", "thread"}
    /\ Start(r, "class", route[r].cls, TRUE)

MaxRows == 2

\* A faulty check: any result that was returned lets the task go on.
ProceedsOnReturn(run) == run.pc \in {"ok", "returned"}

\* procesar_clase 180: the task goes on when process_class_files returned a
\* result and its ok is true
Proceeds(run) == run.pc \in {"ok", "returned"} /\ run.result.ok

\* procesar_clase 180-183 and 393-395: process_class_files raised, or its
\* result is not ok and the task raises "RAG processing failed"; the outer
\* handler logs and raises again
ProcesarClaseFails(r) ==
    /\ route[r].task \in {"task", "thread"}
    /\ route[r].stage = ""
    /\ runs[r].pc \in Ended
    /\ ~Proceeds(runs[r])
    /\ route' = [route EXCEPT ![r].task = "error"]
    /\ UNCHANGED <<chunkVars, pipeVars, matchVars, tmpVars, normVars, appVars, nsVars>>

\* procesar_clase 188-239: the namespace is taken from the result and the
\* context is retrieved from it (an error of the retrieval is caught, 235-237)
ProcesarClaseRetrieves(r) ==
    /\ route[r].task \in {"task", "thread"}
    /\ route[r].stage = ""
    /\ runs[r].pc \in Ended
    /\ Proceeds(runs[r])
    /\ route' = [route EXCEPT ![r].stage = "context",
                   ![r].namespace = ProcesarNamespace(RagResult(runs[r].result),
                                                      runs[r].cls)]
    /\ UNCHANGED <<chunkVars, pipeVars, matchVars, tmpVars, normVars, appVars, nsVars>>

\* procesar_clase 241-391: the generation steps, each inside its own try; a
\* step that yields content inserts a row into contenido (312, 327, 371)
ProcesarClaseGenerates(r) ==
    /\ route[r].task \in {"task", "thread"}
    /\ route[r].stage = "context"
    /\ \E rows \in 0..MaxRows :
         route' = [route EXCEPT ![r].stage = "done", ![r].rows = rows,
                                ![r].task = "finished"]
    /\ UNCHANGED <<chunkVars, pipeVars, matchVars, tmpVars, normVars, appVars, nsVars>>

NextProc ==
    \/ \E r \in Runs, id \in ClassIds : ProcesarClaseRoute(r, id)
    \/ \E r \in Runs : ProcesarClaseAborts(r)
    \/ \E r \in Runs : ProcesarClaseBegins(r)
    \/ \E r \in Runs : ProcesarClaseFails(r)
    \/ \E r \in Runs : ProcesarClaseRetrieves(r)
    \/ \E r \in Runs : ProcesarClaseGenerates(r)
    \/ \E r \in Runs : ExtractClass(r)
    \/ \E r \in Runs : EnsureIndexAndNamespace(r)
    \/ \E r \in Runs : AddDocuments(r)

SpecProc == Init /\ [][NextProc]_vars

----------------------------------------------------------------------------
(* _normalize_namespace on its own: every pair of parts of a bounded space, *)
(* one call of each form.                                                   *)

MaxPartLen == 3
MaxIdLen == 1

\* an upper-case letter, a lower-case letter, a digit, an accented vowel, a
\* space, and a character that is none of these
NormAlphabet == {"A", "a", "1", "í", " ", "!"}

NormStrs(hi) == UNION {[1..m -> NormAlphabet] : m \in 0..hi}

InitNorm ==
    /\ nin \in [a : NormStrs(MaxPartLen), b : NormStrs(MaxIdLen)]
    /\ nphase = "input"
    /\ nout = [a |-> <<>>, b |-> <<>>, ab |-> <<>>, again |-> <<>>,
               clsA |-> <<>>, clsB |-> <<>>]
    /\ cfg = [createIndex |-> FALSE, nsKeyword |-> TRUE, concurrent |-> FALSE,
              chunk |-> [cs |-> DefaultChunkSize, co |-> DefaultChunkOverlap,
                         k |-> DefaultTokensPerChunk, path |-> "simple"]]
    /\ index = DEFAULT_DIM
    /\ PipelineIdle
    /\ ChunkerOff
    /\ MatcherOff
    /\ NoDownloads
    /\ NoRequests
    /\ AppOff
    /\ NamerOff

\* _normalize_namespace(a), (b), (a, b), its result normalized again, and the
\* namespaces process_class_files derives for a and for b as class ids
CallNormalizeNamespace ==
    /\ nphase = "input"
    /\ nphase' = "done"
    /\ nout' = [a |-> NormalizeNamespace(<<nin.a>>),
                b |-> NormalizeNamespace(<<nin.b>>),
                ab |-> NormalizeNamespace(<<nin.a, nin.b>>),
                again |-> NormalizeNamespace(<<NormalizeNamespace(<<nin.a, nin.b>>)>>),
                clsA |-> ClassNamespace(nin.a),
                clsB |-> ClassNamespace(nin.b)]
    /\ UNCHANGED <<nin, chunkVars, pipeVars, matchVars, tmpVars, route, appVars, nsVars>>

NextNorm == CallNormalizeNamespace

SpecNorm == InitNorm /\ [][NextNorm]_vars

----------------------------------------------------------------------------
(* The process and the consumers of the RAG service: the start of main.py   *)
(* with its guarded imports of src.rag.service, whose module body calls     *)
(* init_pinecone(), and then the calls, each with the index name it passes. *)

MaxCalls == 2

OtherIndex == <<"o", "t", "h", "e", "r">>

\* no index name: the None of a request field left out
NoName == <<>>

RequestedNames == {NoName, DEFAULT_INDEX, OtherIndex}

\* init_pinecone 72-76: the client is made when the key is set, else ValueError
InitPinecone(key) == key

\* a parameter with a default: the default stands only when the caller leaves
\* the keyword out; a keyword passed as None is None
Parameter(passed, value, default) == IF passed THEN value ELSE default

\* process_pdf (router.py 24) and retrieve (59): index_name=req.index_name
RouteIndex(requested) == Parameter(TRUE, requested, DEFAULT_INDEX)

\* retrieve_context 91-92: idx = index_name if index_name else None, passed on
ContextIndex(requested) ==
    Parameter(TRUE, IF requested # NoName THEN requested ELSE NoName, DEFAULT_INDEX)

\* the call sites that pass no index name: process_class_files(str(id_clase)),
\* retrieve_top_k_documents(..., namespace=..., top_k=...)
UnnamedIndex == Parameter(FALSE, NoName, DEFAULT_INDEX)

Call(site, requested, target, outcome, keyError) ==
    [site |-> site, requested |-> requested, target |-> target, outcome |-> outcome,
     initialized |-> boot.client, keyError |-> keyError]

InitApp ==
    /\ boot \in [key : BOOLEAN, phase : {"start"}, client : {FALSE},
                 ragRouter : {FALSE}, helper : {FALSE}]
    /\ calls = <<>>
    /\ cfg = [createIndex |-> FALSE, nsKeyword |-> TRUE, concurrent |-> FALSE,
              chunk |-> [cs |-> DefaultChunkSize, co |-> DefaultChunkOverlap,
                         k |-> DefaultTokensPerChunk, path |-> "simple"]]
    /\ index = DEFAULT_DIM
    /\ PipelineIdle
    /\ ChunkerOff
    /\ MatcherOff
    /\ NoDownloads
    /\ NoRequests
    /\ NormalizerOff
    /\ NamerOff

\* main.py 103-165: the routers are imported and included, each inside a try.
\* The first import of src.rag.service runs init_pinecone(); its ValueError is
\* caught by the guard around the import (main.py 122-126, service_chat.py
\* 11-15, conversacion/service.py 20-23) and the process comes up: the rag
\* router is left out and retrieve_top_k_documents is None in the consumers.
Startup ==
    /\ boot.phase = "start"
    /\ boot' = [boot EXCEPT !.phase = "up", !.client = InitPinecone(boot.key),
                            !.ragRouter = InitPinecone(boot.key),
                            !.helper = InitPinecone(boot.key)]
    /\ UNCHANGED <<calls, chunkVars, pipeVars, matchVars, tmpVars, route, normVars, nsVars>>

Served(call) ==
    /\ boot.phase = "up"
    /\ Len(calls) < MaxCalls
    /\ calls' = Append(calls, call)
    /\ UNCHANGED <<boot, chunkVars, pipeVars, matchVars, tmpVars, route, normVars, nsVars>>

\* POST /rag/retrieve and POST /rag/process-pdf: no such route (404) when the
\* rag router was left out
RagRoute(site, requested) ==
    Served(IF boot.ragRouter
           THEN Call(site, requested, RouteIndex(requested), "called", FALSE)
           ELSE Call(site, requested, NoName, "not_found", FALSE))

\* AgentePedagogico.retrieve_context 81-100: None when the helper is None
RetrieveContext(requested) ==
    Served(IF boot.helper
           THEN Call("retrieve_context", requested, ContextIndex(requested),
                     "called", FALSE)
           ELSE Call("retrieve_context", requested, NoName, "skipped", FALSE))

\* chat_general_personalizado 112-125: retrieval when the helper is there
Chat ==
    Served(IF boot.helper
           THEN Call("chat", NoName, UnnamedIndex, "called", FALSE)
           ELSE Call("chat", NoName, NoName, "skipped", FALSE))

\* procesar_clase 133-183: src.rag.service is imported inside the call; a
\* module whose import failed is run again, so init_pinecone() raises again,
\* process_class_files is None and the call raises "RAG service no disponible"
ProcesarClase ==
    Served(IF InitPinecone(boot.key)
           THEN Call("procesar_clase", NoName, UnnamedIndex, "called", FALSE)
           ELSE Call("procesar_clase", NoName, NoName, "unavailable", TRUE))

\* generar_indices_contenido_estudiante 28-54: the import inside the call
\* fails the same way and the retrieval is left out
GenerarIndices ==
    Served(IF InitPinecone(boot.key)
           THEN Call("generar_indices", NoName, UnnamedIndex, "called", FALSE)
           ELSE Call("generar_indices", NoName, NoName, "skipped", TRUE))

NextApp ==
    \/ Startup
    \/ \E site \in {"retrieve", "process_pdf"}, requested \in RequestedNames :
         RagRoute(site, requested)
    \/ \E requested \in RequestedNames : RetrieveContext(requested)
    \/ Chat
    \/ ProcesarClase
    \/ GenerarIndices

SpecApp == InitApp /\ [][NextApp]_vars

----------------------------------------------------------------------------
(* The namespace procesar_clase retrieves from, on its own: every result of *)
(* a bounded space of successful ingestion results, one call.               *)

\* the results an implementation of process_class_files may return with ok
\* true: each key procesar_clase reads is absent (or empty), or holds a name
RagResults(id) ==
    [ok : {TRUE},
     namespace : {NoText, ClassNamespace(id), OtherIndex},
     index : {NoText, DEFAULT_INDEX, OtherIndex},
     name : {NoText, DEFAULT_INDEX, OtherIndex},
     namespace_name : {NoText, ClassNamespace(id), OtherIndex}]

InitNamer ==
    /\ \E id \in ClassIds : pin \in [cls : {id}, result : RagResults(id)]
    /\ pphase = "input"
    /\ pns = <<>>
    /\ cfg = [createIndex |-> FALSE, nsKeyword |-> TRUE, concurrent |-> FALSE,
              chunk |-> [cs |-> DefaultChunkSize, co |-> DefaultChunkOverlap,
                         k |-> DefaultTokensPerChunk, path |-> "simple"]]
    /\ index = DEFAULT_DIM
    /\ PipelineIdle
    /\ ChunkerOff
    /\ MatcherOff
    /\ NoDownloads
    /\ NoRequests
    /\ NormalizerOff
    /\ AppOff

CallProcesarNamespace ==
    /\ pphase = "input"
    /\ pphase' = "done"
    /\ pns' = ProcesarNamespace(pin.result, pin.cls)
    /\ UNCHANGED <<pin, chunkVars, pipeVars, matchVars, tmpVars, route, normVars, appVars>>

NextNamer == CallProcesarNamespace

SpecNamer == InitNamer /\ [][NextNamer]_vars

----------------------------------------------------------------------------
(* Properties of the chunker, under SpecChunk.                             *)

Shared(w1, w2) == Cardinality((w1.lo..w1.hi) \cap (w2.lo..w2.hi))

\* C6: with chunk_overlap below tokens_per_chunk, two consecutive token windows
\* of a fragment share exactly chunk_overlap tokens when the fragment has more
\* tokens than one window, and none when the fragment fits in one window.
OverlapExact ==
    (cphase = "done" /\ cin.co < cin.k) =>
        \A f \in 1..Len(cwins) :
            \A j \in 1..(Len(cwins[f].wins) - 1) :
                Shared(cwins[f].wins[j], cwins[f].wins[j + 1])
                    = IF cwins[f].n > cin.k THEN cin.co ELSE 0

\* C7: a fragment that is not blank and has fewer tokens than tokens_per_chunk
\* yields exactly one chunk, equal to the fragment, whatever chunk_overlap is.
ShortFragmentOneChunk ==
    cphase = "done" =>
        \A f \in 1..Len(cfrags) :
            (/\ Strip(cfrags[f]) # <<>>
             /\ TokenCount(cin.path, cfrags[f]) >= 1
             /\ TokenCount(cin.path, cfrags[f]) < cin.k)
                => cwins[f].chunks = <<cfrags[f]>>

----------------------------------------------------------------------------
(* Properties of ingestion and retrieval, under Spec (SpecConc for C10).   *)

\* the namespace ingestion wrote a vector for, from the vector's metadata
WrittenFor(v) ==
    IF v.class_id # <<>> THEN ClassNamespace(v.class_id)
    ELSE NormalizeNamespace(<<v.collection>>)

IsChunk(v) == v.class_id # <<>> \/ v.collection # <<>>

\* C1: every match retrieve_top_k_documents returns for a namespace is a chunk
\* ingestion wrote for that namespace: a chunk of clase_1 is never returned to
\* a query scoped to clase_2.
NamespaceIsolation ==
    \A m \in Retrieved :
        \A v \in m : IsChunk(v) => WrittenFor(v) = lastQ.namespace

\* the pairs of runs of process_class_files over one class and the same
\* extracted texts, both with dedupe, both successful
SameIngestion(r, o) ==
    /\ r # o
    /\ runs[r].pc = "ok" /\ runs[o].pc = "ok"
    /\ runs[r].kind = "class" /\ runs[o].kind = "class"
    /\ runs[r].cls = runs[o].cls
    /\ runs[r].dedupe /\ runs[o].dedupe
    /\ runs[r].texts = runs[o].texts

\* C2: a run of process_class_files with dedupe that repeats a successful run
\* over unchanged documents leaves the namespace's vectors (ids and texts) as
\* they were before it.
ReingestionIdempotent ==
    \A r \in Runs, o \in Runs :
        (SameIngestion(r, o) /\ runs[r].rerun)
            => InNamespace(store, RunNamespace("class", runs[r].cls)) = runs[r].before

\* C3: when the index's dimension is read and differs from the requested one,
\* the run raises, naming both, before any write: a run that has raised made no
\* upsert call and seeded nothing, and no run gets past the check with a
\* dimension it read that is not the requested one.
MismatchRaisesBeforeWrites ==
    \A r \in Runs :
        /\ runs[r].pc = "raised" =>
             /\ runs[r].actual \notin {NoDimension, DEFAULT_DIM}
             /\ runs[r].upserts = 0
             /\ ~\E v \in store : v.id = SeedId(r)
        /\ (runs[r].pc # "raised" /\ runs[r].actual # NoDimension) =>
             runs[r].actual = DEFAULT_DIM

\* a class run that had chunks to write and raised on the index's dimension
MismatchRaisesBeforeWritesWitness ==
    \E r \in Runs :
        /\ runs[r].pc = "raised" /\ runs[r].kind = "class"
        /\ runs[r].chunks # <<>>
        /\ runs[r].actual \in Dims \ {DEFAULT_DIM}

\* the vectors of a namespace that hold a text under a content id
ContentVectors(ns, text) ==
    {v \in InNamespace(store, ns) : v.id.tag = "sha1" /\ v.text = text}

\* C4: with dedupe the id of a chunk is a function of its text only, and the
\* namespace a successful run wrote to holds exactly one vector for each of
\* the run's chunk texts, however often the text was written.
DedupeOneVectorPerText ==
    /\ \A r \in Runs, o \in Runs :
         \A i \in 1..Len(runs[r].ids), j \in 1..Len(runs[o].ids) :
            (runs[r].dedupe /\ runs[o].dedupe /\ runs[r].chunks[i] = runs[o].chunks[j])
                => runs[r].ids[i] = runs[o].ids[j]
    /\ \A r \in Runs :
         (runs[r].pc = "ok" /\ runs[r].dedupe) =>
            \A i \in 1..Len(runs[r].chunks) :
                Cardinality(ContentVectors(
                    WriteNamespace(RunNamespace(runs[r].kind, runs[r].cls)),
                    runs[r].chunks[i])) = 1

\* a repeated run whose batch holds one text twice, all written
DedupeOneVectorPerTextWitness ==
    \E r \in Runs :
        /\ runs[r].pc = "ok" /\ runs[r].dedupe /\ runs[r].rerun
        /\ \E i \in 1..Len(runs[r].chunks), j \in 1..Len(runs[r].chunks) :
             i < j /\ runs[r].chunks[i] = runs[r].chunks[j]

\* the names in a sequence
Names(seq) == {seq[i] : i \in 1..Len(seq)}

\* C8: the source metadata of the chunks of a class run names the documents
\* the text came from: every document that gave text is the source of a chunk.
SourcesNameDocuments ==
    \A r \in Runs :
        (runs[r].kind = "class" /\ runs[r].chunks # <<>>) =>
            Names(runs[r].sources)
                \subseteq {runs[r].metas[i].source : i \in 1..Len(runs[r].metas)}

\* C9: a run is at the call of add_documents_to_index only with the index
\* present and of the requested dimension.
AddOnlyOnCompatibleIndex ==
    \A r \in Runs : runs[r].pc = "add" => index = DEFAULT_DIM

\* C10: after two concurrent runs of process_class_files over one class and
\* the same texts, both with dedupe, the namespace holds what one run leaves:
\* the run's chunk vectors and the one seed of its ensure step.
ConcurrentRunsAsOne ==
    \A r \in Runs, o \in Runs :
        SameIngestion(r, o) =>
            LET ns == WriteNamespace(RunNamespace("class", runs[r].cls))
                content == InNamespace(store, ns)
            IN /\ {v \in content : IsChunk(v)}
                    = BatchVectors(ns, runs[r].chunks, runs[r].metas, runs[r].ids)
               /\ Cardinality({v \in content : ~IsChunk(v)}) <= 1

\* the documents of a class without the one at position f
Without(docs, f) ==
    [i \in 1..(Len(docs) - 1) |-> IF i < f THEN docs[i] ELSE docs[i + 1]]

\* a class run that is past its extraction
Extracted(r) == runs[r].kind = "class" /\ runs[r].pc \notin {"idle", "extract"}

\* C11: when the download or the extraction of one document of a class raises,
\* only that document is skipped: the texts the run goes on with are those of
\* every other document, the ones listed after the failing one included.
FailureSkipsOneDocument ==
    \A r \in Runs :
        (Extracted(r) /\ runs[r].how.failedDoc # 0) =>
            LET others == Without(ClassDocs(runs[r].cls), runs[r].how.failedDoc)
            IN runs[r].texts = Accumulate(others, Len(others)).texts

\* C12: a process_class_files run whose embedding or write call failed ends by
\* returning a result with ok false and a reason: every class run that ended
\* without the fatal dimension error returned a result, a named failure or ok.
WriteFailureReturnsResult ==
    \A r \in Runs :
        (runs[r].kind = "class" /\ runs[r].pc \in Ended \ {"raised"}) =>
            /\ runs[r].pc \in {"returned", "ok"}
            /\ runs[r].pc = "returned" =>
                 (~runs[r].result.ok /\ runs[r].result.reason # "")

\* C13: retrieve_top_k_documents never raises; a query that fails gives an
\* empty list of matches.
RetrievalNeverRaises == lastQ.asked => ~lastQ.raised

\* C15: a process_class_files run that returns has one of three results, by the
\* stage it reached: no_texts_extracted exactly when no document gave text,
\* no_chunks exactly when there was text and the chunker gave nothing, and
\* otherwise ok with the normalized clase_{id} namespace and the number of
\* chunks as upserted.
ThreeOutcomes ==
    \A r \in Runs :
        (runs[r].kind = "class" /\ runs[r].pc \in {"returned", "ok"}) =>
            LET run == runs[r]
                texts == Accumulate(ClassDocs(run.cls), Processed(run.how)).texts
                chunks == ChunkTexts(texts, cfg.chunk.cs, cfg.chunk.co, cfg.chunk.k,
                                     cfg.chunk.path)
            IN /\ run.result = Failure("no_texts_extracted") <=> texts = <<>>
               /\ run.result = Failure("no_chunks") <=> (texts # <<>> /\ chunks = <<>>)
               /\ (texts # <<>> /\ chunks # <<>>) =>
                    /\ run.pc = "ok"
                    /\ run.result = [ok |-> TRUE, reason |-> "",
                                     upserted |-> Len(chunks),
                                     namespace |-> ClassNamespace(run.cls)]

\* a run that wrote several chunks and one that found no text, both returned
ThreeOutcomesWitness ==
    /\ \E r \in Runs : runs[r].kind = "class" /\ runs[r].pc = "ok"
                       /\ runs[r].result.upserted >= 2
    /\ \E r \in Runs : runs[r].kind = "class" /\ runs[r].pc = "returned"
                       /\ runs[r].how.failedDoc = 1

\* C16: _chunk_texts of no texts returns no chunks and does not raise, whatever
\* the other arguments; a process_class_files run over a class with nothing
\* uploaded, or with blob storage disabled, returns no_texts_extracted.
EmptyInputs ==
    /\ \A cs \in ChunkSizes, co \in 0..MaxOverlap :
         /\ ~ChunkRaises(<<>>, cs, co)
         /\ ChunkTexts(<<>>, cs, co, cfg.chunk.k, cfg.chunk.path) = <<>>
    /\ \A r \in Runs :
         (/\ Extracted(r)
          /\ \/ runs[r].how.storage = "disabled"
             \/ runs[r].how.storage = "listed" /\ runs[r].how.listed = 0)
            => (runs[r].pc = "returned"
                /\ runs[r].result = Failure("no_texts_extracted"))

\* one run with blob storage disabled and one over a class with nothing uploaded
EmptyInputsWitness ==
    /\ \E r \in Runs : Extracted(r) /\ runs[r].how.storage = "disabled"
    /\ \E r \in Runs : Extracted(r) /\ runs[r].how.storage = "listed"
                       /\ runs[r].how.listed = 0

OneResultPerMatch ==
    (lastQ.asked /\ index # NoDimension) =>
        /\ ~lastQ.raised
        /\ Retrieved # {}
        /\ \A m \in Retrieved :
             LET raw == RawMatches(m)
                 out == RetrieveTopK(raw)
                 n == Cardinality(InNamespace(store, QueryNamespace(lastQ.namespace)))
             IN /\ Len(out) = Min(lastQ.topk, n)
                /\ \A i \in 1..Len(out) :
                     out[i].id = raw[i].id /\ out[i].score = raw[i].score
                /\ \A i \in 1..Len(out), j \in 1..Len(out) :
                     i < j => out[i].score >= out[j].score

\* a query with top_k above the size of its namespace, which holds a seed and
\* chunks, all returned
OneResultPerMatchWitness ==
    /\ lastQ.asked /\ ~lastQ.raised /\ lastQ.topk = DefaultTopK
    /\ \E m \in Retrieved :
         /\ Cardinality(m) \in 2..(DefaultTopK - 1)
         /\ \E v \in m : ~IsChunk(v)
         /\ Len(RetrieveTopK(RawMatches(m))) = Cardinality(m)

\* C20: the text of a returned match is the first value that is not empty
\* among metadata.text, metadata.content, metadata.page_content and then the
\* text fields of the raw match itself.
TextResolvedInOrder ==
    mphase = "done" =>
        /\ Len(mout) = 1
        /\ mout[1].text = FirstText(<<mraw.metadata.text, mraw.metadata.content,
                                      mraw.metadata.page_content, mraw.text,
                                      mraw.document>>)

\* C17: when a call of process_class_files or process_pdf_collection is out of
\* its download scope, by return or by exception, its temporary directory no
\* longer exists; a directory exists only for a call that is inside the scope.
TempDirRemoved ==
    \A r \in Runs :
        /\ scope[r].pc \in {"done", "raised"} => r \notin tmpdirs
        /\ r \in tmpdirs => (scope[r].opened /\ scope[r].pc \in {"loop", "finally"})

\* a PDF call whose download raised and a class call that went through its
\* documents, both out of the scope, their directories made and gone
TempDirRemovedWitness ==
    /\ \E r \in Runs : /\ scope[r].kind = "pdf" /\ scope[r].pc = "raised"
                       /\ scope[r].opened /\ r \notin tmpdirs
    /\ \E r \in Runs : /\ scope[r].kind = "class" /\ scope[r].pc = "done"
                       /\ scope[r].opened /\ scope[r].doc >= 1 /\ r \notin tmpdirs

----------------------------------------------------------------------------
(* Properties of _normalize_namespace, under SpecNorm.                      *)

\* what the claim says of one character of a stripped part
NormChar(c) ==
    IF c = "A" THEN <<"a">>
    ELSE IF c = " " THEN <<"_">>
    ELSE IF c = "í" THEN <<"i">>
    ELSE IF c \in {"a", "1", "_", "-"} THEN <<c>>
    ELSE <<>>

RECURSIVE NormChars(_)
NormChars(s) == IF s = <<>> THEN <<>> ELSE NormChar(Head(s)) \o NormChars(Tail(s))

NamespaceInjective ==
    (nphase = "done" /\ nin.a # <<>> /\ nin.b # <<>> /\ nin.a # nin.b)
        => nout.clsA # nout.clsB

----------------------------------------------------------------------------
(* Properties of the process and of the RAG consumers, under SpecApp.       *)

\* C22: a retrieve request, a process-pdf request or a retrieve_context call
\* that names no index works on the default index, and one that names an
\* index works on that index.
OmittedIndexIsDefault ==
    \A i \in 1..Len(calls) :
        (/\ calls[i].site \in {"retrieve", "process_pdf", "retrieve_context"}
         /\ calls[i].outcome = "called")
            => calls[i].target = IF calls[i].requested = NoName THEN DEFAULT_INDEX
                                 ELSE calls[i].requested

\* C23: a missing API key fails the process at its start and is not met at a
\* later call: a process without the key does not come up to serve calls, no
\* call meets the key error or finds the RAG service unavailable, and no RAG
\* operation is called with the client not initialized.
MissingKeyFailsAtStartup ==
    /\ boot.phase = "up" => boot.key
    /\ \A i \in 1..Len(calls) :
         /\ ~calls[i].keyError
         /\ calls[i].outcome # "unavailable"
         /\ calls[i].outcome = "called" => calls[i].initialized

----------------------------------------------------------------------------
(* Further properties of ingestion, under Spec.                             *)

\* the seed vector of a run's ensure step is in the index
Seeded(r) == \E v \in store : v.id = SeedId(r)

\* C24: a seeding of the namespace that fails (create_namespace raises, as
\* when the dimension cannot be inferred) does not end the run: a run raises
\* in its ensure step on a dimension mismatch only, and a class run that is
\* past the step without a seed goes on to the chunk write and makes it.
SeedingFailureNotFatal ==
    \A r \in Runs :
        /\ runs[r].pc = "raised" => DimensionMismatch(runs[r].actual, DEFAULT_DIM)
        /\ (runs[r].kind = "class" /\ runs[r].chunks # <<>> /\ ~Seeded(r)) =>
             /\ runs[r].pc \in {"ensure", "add", "ok", "failed", "raised"}
             /\ runs[r].pc \in {"ok", "failed"} => runs[r].upserts = WriteCalls

\* a class run whose seeding failed on an index that is there, and whose
\* chunks were then written
SeedingFailureNotFatalWitness ==
    \E r \in Runs :
        /\ runs[r].kind = "class" /\ runs[r].pc = "ok"
        /\ ~Seeded(r)
        /\ runs[r].upserts = WriteCalls
        /\ \E v \in store : v.id \in {runs[r].ids[i] : i \in 1..Len(runs[r].ids)}

\* C26: a run that returned a result with ok false (no text, no chunks) has
\* written nothing: no upsert call was made and no seed of it is in the index.
FailureLeavesIndexUnchanged ==
    \A r \in Runs :
        runs[r].pc = "returned" => (runs[r].upserts = 0 /\ ~Seeded(r))

----------------------------------------------------------------------------
(* Properties of the namespace procesar_clase retrieves from, under         *)
(* SpecNamer.                                                               *)

----------------------------------------------------------------------------
(* Further properties of the chunker, under SpecChunk.                      *)

\* C27: for a fragment, an overlap and a token budget, the three re-chunking
\* paths cut the same windows whenever they count the same tokens: as many
\* windows, with the same first and last token each.
PathsCutAlike ==
    cphase = "done" =>
        \A f \in 1..Len(cfrags) :
            Strip(cfrags[f]) # <<>> =>
                \A p \in Paths, q \in Paths :
                    LET wp == Rechunk(p, cfrags[f], cin.k, cin.co)
                        wq == Rechunk(q, cfrags[f], cin.k, cin.co)
                    IN wp.n = wq.n => wp.wins = wq.wins

\* C28: for every fragment with tokens, any overlap (the window size and more
\* included) and any token budget, the window loop ends after at most one
\* round per token, and its windows in order start at the first token, each
\* start after the one before and no later than the token after the previous
\* window's end, end at the last token, and are never empty: every token is in
\* a window, and no chunk emitted is empty.
WindowsCoverFragment ==
    cphase = "done" =>
        \A f \in 1..Len(cwins) :
            LET w == cwins[f] IN
            w.n > 0 =>
                /\ Len(w.wins) \in 1..w.n
                /\ Len(w.chunks) = Len(w.wins)
                /\ w.wins[1].lo = 1
                /\ w.wins[Len(w.wins)].hi = w.n
                /\ \A j \in 1..Len(w.wins) :
                     /\ w.wins[j].lo <= w.wins[j].hi
                     /\ w.chunks[j] # <<>>
                /\ \A j \in 1..(Len(w.wins) - 1) :
                     /\ w.wins[j + 1].lo > w.wins[j].lo
                     /\ w.wins[j + 1].lo <= w.wins[j].hi + 1
                /\ \A t \in 1..w.n :
                     \E j \in 1..Len(w.wins) : t \in w.wins[j].lo..w.wins[j].hi

\* a call with the overlap at or above the token budget and a fragment of more
\* tokens than the budget: the window moves one token at a time
WindowsCoverFragmentWitness ==
    /\ cphase = "done"
    /\ cin.co >= cin.k
    /\ \E f \in 1..Len(cwins) :
         /\ cwins[f].n > cin.k
         /\ Len(cwins[f].wins) = cwins[f].n

----------------------------------------------------------------------------
(* Further properties of the class route, under SpecProc.                   *)

====
